---- MODULE Spec2Model ----
(***************************************************************************)
(* Model of src/app.py: the drowsiness-detection frame loop                *)
(* (generate_frames), the background start_alarm and send_sos_email        *)
(* threads it spawns, and the Flask request handlers start_detection,      *)
(* stop_detection, get_stats, set_sos_email and get_sos_email, which run   *)
(* on their own threads (app.run(threaded=True)).                          *)
(*                                                                         *)
(* Every step is one access to shared state.  A `with lock:` block is an   *)
(* acquire step that also executes the first statement of the block and    *)
(* later steps that end with the release; the lock variables name the kind *)
(* of thread that holds the lock.                                          *)
(***************************************************************************)
EXTENDS Integers, Sequences, FiniteSets, Bags, TLC

\* ---- program constants --------------------------------------------------
Threshold == 5
SosEvents == 3
StatusOK == 200
Closed == 2

\* ---- bounds of the model ------------------------------------------------
\* frames read in a run: with at most one face a frame, with several faces
\* a frame, and with the request handlers running
MaxFrames == 8
MaxCrowdFrames == 3
MaxControlFrames == 5
\* faces in a frame
MaxFaces == 2
\* start_alarm and send_sos_email threads alive at a time
MaxAlarm == 2
MaxSos == 2
\* calls of start_detection
MaxSessions == 2
\* frames read in a run that begins in the middle of a streak
MaxStreakFrames == 2
\* the same with the request handlers running
MaxLockFrames == 1

\* ---- input sets ---------------------------------------------------------
\* np.argmax over the classifier output; 0 is an open label, 2 is closed
Labels == {0, Closed}
\* what one eye cascade gives for a face: no usable eye box, or a label
NoEye == -1
Obs == {NoEye} \cup Labels
\* recipient addresses posted to /sos/email ("" is unset)
Emails == {"", "a@x"}
\* what requests.post gives back: a status code, or 0 for an exception
Timeout == 0
Responses == {StatusOK, 201, 422, 500, Timeout}
\* numbers of faces detectMultiScale finds in a frame
SingleFace == {0, 1}
AnyFaces == 0..MaxFaces

Free == "free"

VARIABLES
    detection_active, count, alarm_on, stats, email_config, camera,
    stats_lock, email_lock,
    fpc, status1, status2, facesLeft, firstFace, tmp,
    alarms, soss,
    startPc, stopPc, statsPc, snap, emailPc, getPc,
    session, frames, crossings, frameRun, closedFrames,
    posts, delivered, stable, preconfigured, stopped, pending

progVars == <<detection_active, count, alarm_on, stats, email_config, camera,
              stats_lock, email_lock>>
loopVars == <<fpc, status1, status2, facesLeft, firstFace, tmp>>
threadVars == <<alarms, soss>>
handlerVars == <<startPc, stopPc, statsPc, snap, emailPc, getPc>>
ghostVars == <<session, frames, crossings, frameRun, closedFrames,
               posts, delivered, stable, preconfigured, stopped, pending>>
vars == <<progVars, loopVars, threadVars, handlerVars, ghostVars>>

ZeroStats == [eyes_closed_count |-> 0, total_frames |-> 0,
              drowsiness_events |-> 0, alarm_triggered |-> FALSE]

\* ---- thread bags --------------------------------------------------------
Put(b, t) == b (+) SetToBag({t})
Take(b, t) == b (-) SetToBag({t})
Move(b, t, u) == Put(Take(b, t), u)

\* a start_alarm thread: its position, its locals current_events and
\* email_sent, and the session in which it was spawned
AlarmThread(pc, ce, es, sess) == [pc |-> pc, ce |-> ce, es |-> es, sess |-> sess]
\* a send_sos_email thread: its position, its local recipient and the
\* session in which it was spawned
SosThread(pc, rcpt, sess) == [pc |-> pc, rcpt |-> rcpt, sess |-> sess]

Init ==
    /\ detection_active = FALSE
    /\ count = 0
    /\ alarm_on = FALSE
    /\ stats = ZeroStats
    /\ email_config = [recipient_email |-> "", email_sent |-> FALSE]
    /\ camera = "none"
    /\ stats_lock = Free
    /\ email_lock = Free
    /\ fpc = "idle"
    /\ status1 = 0
    /\ status2 = 0
    /\ facesLeft = 0
    /\ firstFace = FALSE
    /\ tmp = 0
    /\ alarms = EmptyBag
    /\ soss = EmptyBag
    /\ startPc = "idle"
    /\ stopPc = "idle"
    /\ statsPc = "idle"
    /\ snap = ZeroStats
    /\ emailPc = "idle"
    /\ getPc = "idle"
    /\ session = 0
    /\ frames = 0
    /\ crossings = 0
    /\ frameRun = 0
    /\ closedFrames = 0
    /\ posts = 0
    /\ delivered = 0
    /\ stable = ZeroStats
    /\ preconfigured = FALSE
    /\ stopped = FALSE
    /\ pending = "none"

\* ---- locks --------------------------------------------------------------
\* the stats store as it was when stats_lock was last free
Released(newStats) == stable' = newStats

\* ---- generate_frames ----------------------------------------------------
\* /video_feed: a new generator opens the capture (lines 168-176)
VideoFeed(opened) ==
    /\ fpc = "idle"
    /\ IF opened
         THEN /\ camera' = "open"
              /\ fpc' = "while"
         ELSE /\ camera' = "failed"
              /\ fpc' = "idle"
    /\ status1' = 0
    /\ status2' = 0
    /\ UNCHANGED <<detection_active, count, alarm_on, stats, email_config,
                   stats_lock, email_lock, facesLeft, firstFace, tmp,
                   threadVars, handlerVars, ghostVars>>

\* while detection_active: (line 178)
LoopTest ==
    /\ fpc = "while"
    /\ fpc' = IF detection_active THEN "read" ELSE "cleanup"
    /\ UNCHANGED <<progVars, status1, status2, facesLeft, firstFace, tmp,
                   threadVars, handlerVars, ghostVars>>

\* camera.read() gives a frame in which detectMultiScale finds n faces
\* (lines 179, 187-189); cap bounds the frames read in a run of the model.
\* pending tells whether this is the first frame read since stop_detection
\* cleared the flag ("due" before it, "spent" after it).
ReadFrame(n, cap) ==
    /\ fpc = "read"
    /\ camera = "open"
    /\ frames < cap
    /\ frames' = frames + 1
    /\ facesLeft' = n
    /\ firstFace' = TRUE
    /\ fpc' = "total"
    /\ pending' = IF pending = "due" THEN "spent" ELSE pending
    /\ UNCHANGED <<progVars, status1, status2, tmp, threadVars, handlerVars,
                   session, crossings, frameRun, closedFrames, posts,
                   delivered, stable, preconfigured, stopped>>

\* camera.read() fails: break (lines 180-182)
ReadFail ==
    /\ fpc = "read"
    /\ fpc' = "cleanup"
    /\ UNCHANGED <<progVars, status1, status2, facesLeft, firstFace, tmp,
                   threadVars, handlerVars, ghostVars>>

\* with stats_lock: stats['total_frames'] += 1 (lines 184-185)
CountFrame ==
    /\ fpc = "total"
    /\ stats_lock = Free
    /\ stats_lock' = "frame"
    /\ stats' = [stats EXCEPT !.total_frames = @ + 1]
    /\ fpc' = "total_rel"
    /\ UNCHANGED <<detection_active, count, alarm_on, email_config, camera,
                   email_lock, status1, status2, facesLeft, firstFace, tmp,
                   threadVars, handlerVars, ghostVars>>

LoopRelease(from, to) ==
    /\ fpc = from
    /\ stats_lock = "frame"
    /\ stats_lock' = Free
    /\ Released(stats)
    /\ fpc' = to
    /\ UNCHANGED <<detection_active, count, alarm_on, stats, email_config,
                   camera, email_lock, status1, status2, facesLeft, firstFace,
                   tmp, threadVars, handlerVars, session, frames, crossings,
                   frameRun, closedFrames, posts, delivered, preconfigured, stopped, pending>>

\* the status an eye keeps when the cascade gives l for it: the classifier
\* runs only on an eye box of non-zero size (lines 199-221)
NewStatus(old, l) == IF l = NoEye THEN old ELSE l

\* if status1 == 2 and status2 == 2 (line 224)
BothClosed(s1, s2) == s1 = Closed /\ s2 = Closed

\* one iteration of `for (x, y, w, h) in faces` up to the first access to
\* count: the eyes are looked for and classified (lines 191-224), then
\* either count is loaded for count += 1 (line 225) or count = 0 (line 243)
Face(l, r) ==
    /\ fpc = "faces"
    /\ facesLeft > 0
    /\ facesLeft' = facesLeft - 1
    /\ firstFace' = FALSE
    /\ status1' = NewStatus(status1, l)
    /\ status2' = NewStatus(status2, r)
    /\ IF BothClosed(status1', status2')
         THEN /\ tmp' = count
              /\ count' = count
              /\ fpc' = "inc"
         ELSE /\ tmp' = tmp
              /\ count' = 0
              /\ fpc' = "clear_alarm"
    /\ IF firstFace
         THEN /\ frameRun' = IF BothClosed(status1', status2') THEN frameRun + 1 ELSE 0
              /\ closedFrames' = IF BothClosed(status1', status2')
                                   THEN closedFrames + 1 ELSE closedFrames
         ELSE UNCHANGED <<frameRun, closedFrames>>
    /\ UNCHANGED <<detection_active, alarm_on, stats, email_config, camera,
                   stats_lock, email_lock, threadVars, handlerVars,
                   session, frames, crossings, posts, delivered, stable,
                   preconfigured, stopped, pending>>

\* the frame loop as it would be if a frame without a face counted as an
\* eyes-open frame
YieldAsOpen ==
    /\ fpc = "faces"
    /\ facesLeft = 0
    /\ fpc' = "yield"
    /\ count' = IF firstFace THEN 0 ELSE count
    /\ UNCHANGED <<detection_active, alarm_on, stats, email_config, camera,
                   stats_lock, email_lock, status1, status2, facesLeft,
                   firstFace, tmp, threadVars, handlerVars, ghostVars>>

\* the for loop over faces is exhausted: imencode and yield (lines 248-251)
Yield ==
    /\ fpc = "faces"
    /\ facesLeft = 0
    /\ fpc' = "yield"
    /\ UNCHANGED <<progVars, status1, status2, facesLeft, firstFace, tmp,
                   threadVars, handlerVars, ghostVars>>

\* the consumer asks for the next frame
Resume ==
    /\ fpc = "yield"
    /\ fpc' = "while"
    /\ UNCHANGED <<progVars, status1, status2, facesLeft, firstFace, tmp,
                   threadVars, handlerVars, ghostVars>>

\* count += 1, the store (line 225)
StoreCount ==
    /\ fpc = "inc"
    /\ count' = tmp + 1
    /\ crossings' = IF count' = Threshold THEN crossings + 1 ELSE crossings
    /\ fpc' = "closed_stat"
    /\ UNCHANGED <<detection_active, alarm_on, stats, email_config, camera,
                   stats_lock, email_lock, status1, status2, facesLeft,
                   firstFace, tmp, threadVars, handlerVars, session, frames,
                   frameRun, closedFrames, posts, delivered, stable,
                   preconfigured, stopped, pending>>

\* with stats_lock: stats['eyes_closed_count'] += 1 (lines 226-227)
CountClosed ==
    /\ fpc = "closed_stat"
    /\ stats_lock = Free
    /\ stats_lock' = "frame"
    /\ stats' = [stats EXCEPT !.eyes_closed_count = @ + 1]
    /\ fpc' = "closed_rel"
    /\ UNCHANGED <<detection_active, count, alarm_on, email_config, camera,
                   email_lock, status1, status2, facesLeft, firstFace, tmp,
                   threadVars, handlerVars, ghostVars>>

\* if count >= 5: (line 232)
TestThreshold ==
    /\ fpc = "chk5"
    /\ fpc' = IF count >= Threshold THEN "chk_alarm" ELSE "faces"
    /\ UNCHANGED <<progVars, status1, status2, facesLeft, firstFace, tmp,
                   threadVars, handlerVars, ghostVars>>

\* the frame loop's test before it spawns start_alarm (line 235)
LoopSeesAlarmOff == ~alarm_on

\* if not alarm_on: Thread(target=start_alarm).start() (lines 235-238)
TestAlarm ==
    /\ fpc = "chk_alarm"
    /\ IF LoopSeesAlarmOff
         THEN /\ BagCardinality(alarms) < MaxAlarm
              /\ alarms' = Put(alarms, AlarmThread("test", 0, FALSE, session))
         ELSE alarms' = alarms
    /\ fpc' = "faces"
    /\ UNCHANGED <<progVars, status1, status2, facesLeft, firstFace, tmp,
                   soss, handlerVars, ghostVars>>

\* alarm_on = False (line 244)
ClearAlarm ==
    /\ fpc = "clear_alarm"
    /\ alarm_on' = FALSE
    /\ fpc' = "open_stat"
    /\ UNCHANGED <<detection_active, count, stats, email_config, camera,
                   stats_lock, email_lock, status1, status2, facesLeft,
                   firstFace, tmp, threadVars, handlerVars, ghostVars>>

\* with stats_lock: stats['alarm_triggered'] = False (lines 245-246)
ClearTriggered ==
    /\ fpc = "open_stat"
    /\ stats_lock = Free
    /\ stats_lock' = "frame"
    /\ stats' = [stats EXCEPT !.alarm_triggered = FALSE]
    /\ fpc' = "open_rel"
    /\ UNCHANGED <<detection_active, count, alarm_on, email_config, camera,
                   email_lock, status1, status2, facesLeft, firstFace, tmp,
                   threadVars, handlerVars, ghostVars>>

\* if camera and camera.isOpened(): camera.release() (lines 254-256)
Cleanup ==
    /\ fpc = "cleanup"
    /\ camera' = IF camera = "open" THEN "released" ELSE camera
    /\ fpc' = "idle"
    /\ pending' = "none"
    /\ UNCHANGED <<detection_active, count, alarm_on, stats, email_config,
                   stats_lock, email_lock, status1, status2, facesLeft,
                   firstFace, tmp, threadVars, handlerVars, session, frames,
                   crossings, frameRun, closedFrames, posts, delivered,
                   stable, preconfigured, stopped>>

FrameLoop(faceCounts, cap) ==
    \/ \E opened \in BOOLEAN : VideoFeed(opened)
    \/ LoopTest
    \/ \E n \in faceCounts : ReadFrame(n, cap)
    \/ ReadFail
    \/ CountFrame
    \/ LoopRelease("total_rel", "faces")
    \/ \E l \in Obs, r \in Obs : Face(l, r)
    \/ Yield
    \/ Resume
    \/ StoreCount
    \/ CountClosed
    \/ LoopRelease("closed_rel", "chk5")
    \/ TestThreshold
    \/ TestAlarm
    \/ ClearAlarm
    \/ ClearTriggered
    \/ LoopRelease("open_rel", "faces")
    \/ Cleanup

\* ---- start_alarm --------------------------------------------------------
\* the test at the head of start_alarm (line 148)
AlarmSeesAlarmOff == ~alarm_on

\* if not alarm_on: (line 148); otherwise the thread ends
AlarmTest(t) ==
    /\ t.pc = "test"
    /\ alarms' = IF AlarmSeesAlarmOff
                   THEN Move(alarms, t, [t EXCEPT !.pc = "lock"])
                   ELSE Take(alarms, t)
    /\ UNCHANGED <<progVars, loopVars, soss, handlerVars, ghostVars>>

\* with stats_lock: stats['alarm_triggered'] = True (lines 149-150)
AlarmTrigger(t) ==
    /\ t.pc = "lock"
    /\ stats_lock = Free
    /\ stats_lock' = "alarm"
    /\ stats' = [stats EXCEPT !.alarm_triggered = TRUE]
    /\ alarms' = Move(alarms, t, [t EXCEPT !.pc = "inc"])
    /\ UNCHANGED <<detection_active, count, alarm_on, email_config, camera,
                   email_lock, loopVars, soss, handlerVars, ghostVars>>

\* start_alarm as it would be if the with email_lock block were nested in
\* the with stats_lock block
AlarmCountKeepsLock(t) ==
    /\ t.pc = "inc"
    /\ stats_lock = "alarm"
    /\ stats' = [stats EXCEPT !.drowsiness_events = @ + 1]
    /\ alarms' = Move(alarms, t, [t EXCEPT !.pc = "set",
                                           !.ce = stats'.drowsiness_events])
    /\ UNCHANGED <<detection_active, count, alarm_on, email_config, camera,
                   stats_lock, email_lock, loopVars, soss, handlerVars,
                   ghostVars>>

\* stats['drowsiness_events'] += 1; current_events = ...; the lock is
\* released (lines 151-152)
AlarmCount(t) ==
    /\ t.pc = "inc"
    /\ stats_lock = "alarm"
    /\ stats' = [stats EXCEPT !.drowsiness_events = @ + 1]
    /\ stats_lock' = Free
    /\ Released(stats')
    /\ alarms' = Move(alarms, t, [t EXCEPT !.pc = "set",
                                           !.ce = stats'.drowsiness_events])
    /\ UNCHANGED <<detection_active, count, alarm_on, email_config, camera,
                   email_lock, loopVars, soss, handlerVars, session, frames,
                   crossings, frameRun, closedFrames, posts, delivered,
                   preconfigured, stopped, pending>>

\* alarm_on = True (line 154)
AlarmSet(t) ==
    /\ t.pc = "set"
    /\ alarm_on' = TRUE
    /\ alarms' = Move(alarms, t, [t EXCEPT !.pc = "email"])
    /\ UNCHANGED <<detection_active, count, stats, email_config, camera,
                   stats_lock, email_lock, loopVars, soss, handlerVars,
                   ghostVars>>

\* with email_lock: email_sent = email_config['email_sent'] (lines 157-158)
AlarmReadSent(t) ==
    /\ t.pc = "email"
    /\ email_lock = Free
    /\ email_lock' = "alarm"
    /\ alarms' = Move(alarms, t, [t EXCEPT !.pc = "decide",
                                           !.es = email_config.email_sent])
    /\ UNCHANGED <<detection_active, count, alarm_on, stats, email_config,
                   camera, stats_lock, loopVars, soss, handlerVars, ghostVars>>

\* if current_events >= 3 and not email_sent: (line 161)
SosDue(ce, es) == ce >= SosEvents /\ ~es

\* the lock is released; Thread(target=send_sos_email).start() when the
\* SOS is due, and the thread ends (lines 158-163)
AlarmDecide(t) ==
    /\ t.pc = "decide"
    /\ email_lock = "alarm"
    /\ email_lock' = Free
    /\ alarms' = Take(alarms, t)
    /\ IF SosDue(t.ce, t.es)
         THEN /\ BagCardinality(soss) < MaxSos
              /\ soss' = Put(soss, SosThread("gate", "", t.sess))
         ELSE soss' = soss
    /\ UNCHANGED <<detection_active, count, alarm_on, stats, email_config,
                   camera, stats_lock, loopVars, handlerVars, ghostVars>>

\* a step of the start_alarm thread t
AlarmStep(t) ==
    \/ AlarmTest(t)
    \/ AlarmTrigger(t)
    \/ AlarmCount(t)
    \/ AlarmSet(t)
    \/ AlarmReadSent(t)
    \/ AlarmDecide(t)

StartAlarm == \E t \in BagToSet(alarms) : AlarmStep(t)

\* ---- send_sos_email -----------------------------------------------------
\* if not email_config['recipient_email'] or email_config['email_sent']
\* (line 56)
GateShut(cfg) == cfg.recipient_email = "" \/ cfg.email_sent

\* with email_lock: the gate; return when it is shut, otherwise
\* recipient = email_config['recipient_email'] (lines 55-60)
SosGate(t) ==
    /\ t.pc = "gate"
    /\ email_lock = Free
    /\ IF GateShut(email_config)
         THEN /\ email_lock' = Free
              /\ soss' = Take(soss, t)
         ELSE /\ email_lock' = "sos"
              /\ soss' = Move(soss, t, [t EXCEPT !.pc = "gate_rel",
                                                 !.rcpt = email_config.recipient_email])
    /\ UNCHANGED <<detection_active, count, alarm_on, stats, email_config,
                   camera, stats_lock, loopVars, alarms, handlerVars,
                   ghostVars>>

\* the with block of the gate ends (line 60)
SosGateRelease(t) ==
    /\ t.pc = "gate_rel"
    /\ email_lock = "sos"
    /\ email_lock' = Free
    /\ soss' = Move(soss, t, [t EXCEPT !.pc = "build"])
    /\ UNCHANGED <<detection_active, count, alarm_on, stats, email_config,
                   camera, stats_lock, loopVars, alarms, handlerVars,
                   ghostVars>>

\* with stats_lock: email_data = {...} reads the three counters
\* (lines 66-96)
SosBuild(t) ==
    /\ t.pc = "build"
    /\ stats_lock = Free
    /\ stats_lock' = "sos"
    /\ soss' = Move(soss, t, [t EXCEPT !.pc = "build_rel"])
    /\ UNCHANGED <<detection_active, count, alarm_on, stats, email_config,
                   camera, email_lock, loopVars, alarms, handlerVars,
                   ghostVars>>

\* send_sos_email as it would be if requests.post were called inside the
\* with stats_lock block
SosBuildKeepsLock(t) ==
    /\ t.pc = "build_rel"
    /\ stats_lock = "sos"
    /\ soss' = Move(soss, t, [t EXCEPT !.pc = "post"])
    /\ UNCHANGED <<progVars, loopVars, alarms, handlerVars, ghostVars>>

\* the with block of the message ends (line 96)
SosBuildRelease(t) ==
    /\ t.pc = "build_rel"
    /\ stats_lock = "sos"
    /\ stats_lock' = Free
    /\ Released(stats)
    /\ soss' = Move(soss, t, [t EXCEPT !.pc = "post"])
    /\ UNCHANGED <<detection_active, count, alarm_on, stats, email_config,
                   camera, email_lock, loopVars, alarms, handlerVars,
                   session, frames, crossings, frameRun, closedFrames, posts,
                   delivered, preconfigured, stopped, pending>>

\* requests.post(...) is issued (lines 110-115)
SosPost(t) ==
    /\ t.pc = "post"
    /\ posts' = posts + 1
    /\ soss' = Move(soss, t, [t EXCEPT !.pc = "wait"])
    /\ UNCHANGED <<progVars, loopVars, alarms, handlerVars, session, frames,
                   crossings, frameRun, closedFrames, delivered, stable,
                   preconfigured, stopped, pending>>

\* send_sos_email as it would be if every answer of the relay counted
SuccessAnyStatus(r) == r # Timeout

\* if response.status_code == 200: (line 117)
Success(r) == r = StatusOK

\* the relay answers r, or the call raises; only a success goes on to mark
\* the email as sent (lines 117-142)
SosResponse(t, r) ==
    /\ t.pc = "wait"
    /\ IF Success(r)
         THEN /\ soss' = Move(soss, t, [t EXCEPT !.pc = "mark"])
              /\ delivered' = delivered + 1
         ELSE /\ soss' = Take(soss, t)
              /\ delivered' = delivered
    /\ UNCHANGED <<progVars, loopVars, alarms, handlerVars, session, frames,
                   crossings, frameRun, closedFrames, posts, stable,
                   preconfigured, stopped, pending>>

\* with email_lock: email_config['email_sent'] = True (lines 119-120)
SosMark(t) ==
    /\ t.pc = "mark"
    /\ email_lock = Free
    /\ email_lock' = "sos"
    /\ email_config' = [email_config EXCEPT !.email_sent = TRUE]
    /\ soss' = Move(soss, t, [t EXCEPT !.pc = "mark_rel"])
    /\ UNCHANGED <<detection_active, count, alarm_on, stats, camera,
                   stats_lock, loopVars, alarms, handlerVars, ghostVars>>

SosMarkRelease(t) ==
    /\ t.pc = "mark_rel"
    /\ email_lock = "sos"
    /\ email_lock' = Free
    /\ soss' = Take(soss, t)
    /\ UNCHANGED <<detection_active, count, alarm_on, stats, email_config,
                   camera, stats_lock, loopVars, alarms, handlerVars,
                   ghostVars>>

\* a step of the send_sos_email thread t
SosStep(t) ==
    \/ SosGate(t)
    \/ SosGateRelease(t)
    \/ SosBuild(t)
    \/ SosBuildRelease(t)
    \/ SosPost(t)
    \/ \E r \in Responses : SosResponse(t, r)
    \/ SosMark(t)
    \/ SosMarkRelease(t)

SendSosEmail == \E t \in BagToSet(soss) : SosStep(t)

\* ---- start_detection ----------------------------------------------------
\* detection_active = True (line 270); a new session begins here
StartBegin ==
    /\ startPc = "idle"
    /\ session < MaxSessions
    /\ detection_active' = TRUE
    /\ startPc' = "count"
    /\ session' = session + 1
    /\ crossings' = 0
    /\ frameRun' = 0
    /\ closedFrames' = 0
    /\ posts' = 0
    /\ delivered' = 0
    /\ preconfigured' = (email_config.recipient_email # "")
    /\ stopped' = (~detection_active /\ stopPc = "idle")
    /\ UNCHANGED <<count, alarm_on, stats, email_config, camera, stats_lock,
                   email_lock, loopVars, threadVars, stopPc, statsPc, snap,
                   emailPc, getPc, frames, stable, pending>>

\* the value start_detection gives to count (line 271)
StartCount == 0

\* count = 0 (line 271)
StartResetCount ==
    /\ startPc = "count"
    /\ count' = StartCount
    /\ startPc' = "alarm"
    /\ UNCHANGED <<detection_active, alarm_on, stats, email_config, camera,
                   stats_lock, email_lock, loopVars, threadVars, stopPc,
                   statsPc, snap, emailPc, getPc, ghostVars>>

\* alarm_on = False (line 272)
StartResetAlarm ==
    /\ startPc = "alarm"
    /\ alarm_on' = FALSE
    /\ startPc' = "stats"
    /\ UNCHANGED <<detection_active, count, stats, email_config, camera,
                   stats_lock, email_lock, loopVars, threadVars, stopPc,
                   statsPc, snap, emailPc, getPc, ghostVars>>

\* with stats_lock: stats['eyes_closed_count'] = 0 (lines 274-275)
StartResetClosed ==
    /\ startPc = "stats"
    /\ stats_lock = Free
    /\ stats_lock' = "start"
    /\ stats' = [stats EXCEPT !.eyes_closed_count = 0]
    /\ startPc' = "r1"
    /\ UNCHANGED <<detection_active, count, alarm_on, email_config, camera,
                   email_lock, loopVars, threadVars, stopPc, statsPc, snap,
                   emailPc, getPc, ghostVars>>

\* stats['total_frames'] = 0 (line 276)
StartResetFrames ==
    /\ startPc = "r1"
    /\ stats' = [stats EXCEPT !.total_frames = 0]
    /\ startPc' = "r2"
    /\ UNCHANGED <<detection_active, count, alarm_on, email_config, camera,
                   stats_lock, email_lock, loopVars, threadVars, stopPc,
                   statsPc, snap, emailPc, getPc, ghostVars>>

\* stats['drowsiness_events'] = 0 (line 277)
StartResetEvents ==
    /\ startPc = "r2"
    /\ stats' = [stats EXCEPT !.drowsiness_events = 0]
    /\ startPc' = "r3"
    /\ UNCHANGED <<detection_active, count, alarm_on, email_config, camera,
                   stats_lock, email_lock, loopVars, threadVars, stopPc,
                   statsPc, snap, emailPc, getPc, ghostVars>>

\* stats['alarm_triggered'] = False; the lock is released (line 278)
StartResetTriggered ==
    /\ startPc = "r3"
    /\ stats_lock = "start"
    /\ stats' = [stats EXCEPT !.alarm_triggered = FALSE]
    /\ stats_lock' = Free
    /\ Released(stats')
    /\ startPc' = "email"
    /\ UNCHANGED <<detection_active, count, alarm_on, email_config, camera,
                   email_lock, loopVars, threadVars, stopPc, statsPc, snap,
                   emailPc, getPc, session, frames, crossings, frameRun,
                   closedFrames, posts, delivered, preconfigured, stopped, pending>>

\* start_detection as it would be if it replaced the whole email_config
StartEmailWipe(cfg) == [recipient_email |-> "", email_sent |-> FALSE]

\* what start_detection writes to email_config (line 281)
StartEmail(cfg) == [cfg EXCEPT !.email_sent = FALSE]

\* with email_lock: email_config['email_sent'] = False (lines 280-281)
StartResetSent ==
    /\ startPc = "email"
    /\ email_lock = Free
    /\ email_lock' = "start"
    /\ email_config' = StartEmail(email_config)
    /\ startPc' = "email_rel"
    /\ UNCHANGED <<detection_active, count, alarm_on, stats, camera,
                   stats_lock, loopVars, threadVars, stopPc, statsPc, snap,
                   emailPc, getPc, ghostVars>>

\* the lock is released and the handler returns (lines 281-286)
StartReturn ==
    /\ startPc = "email_rel"
    /\ email_lock = "start"
    /\ email_lock' = Free
    /\ startPc' = "idle"
    /\ UNCHANGED <<detection_active, count, alarm_on, stats, email_config,
                   camera, stats_lock, loopVars, threadVars, stopPc, statsPc,
                   snap, emailPc, getPc, ghostVars>>

StartDetection ==
    \/ StartBegin
    \/ StartResetCount
    \/ StartResetAlarm
    \/ StartResetClosed
    \/ StartResetFrames
    \/ StartResetEvents
    \/ StartResetTriggered
    \/ StartResetSent
    \/ StartReturn

\* ---- stop_detection -----------------------------------------------------
\* detection_active = False, then time.sleep(1) (lines 291-292); a frame
\* loop that is running has yet to see the cleared flag
StopBegin ==
    /\ stopPc = "idle"
    /\ detection_active
    /\ detection_active' = FALSE
    /\ stopPc' = "sleep"
    /\ pending' = IF fpc \in {"idle", "cleanup"} THEN "none" ELSE "due"
    /\ UNCHANGED <<count, alarm_on, stats, email_config, camera, stats_lock,
                   email_lock, loopVars, threadVars, startPc, statsPc, snap,
                   emailPc, getPc, session, frames, crossings, frameRun,
                   closedFrames, posts, delivered, stable, preconfigured,
                   stopped>>

\* if camera and camera.isOpened(): camera.release() (lines 293-296)
StopRelease ==
    /\ stopPc = "sleep"
    /\ camera' = IF camera = "open" THEN "released" ELSE camera
    /\ stopPc' = "idle"
    /\ pending' = "none"
    /\ UNCHANGED <<detection_active, count, alarm_on, stats, email_config,
                   stats_lock, email_lock, loopVars, threadVars, startPc,
                   statsPc, snap, emailPc, getPc, session, frames, crossings,
                   frameRun, closedFrames, posts, delivered, stable,
                   preconfigured, stopped>>

StopDetection ==
    \/ StopBegin
    \/ StopRelease

\* ---- get_stats ----------------------------------------------------------
\* get_stats as it would be if it copied stats without the lock
StatsLockIgnored == TRUE

\* get_stats waits for stats_lock (line 300)
StatsLockFree == stats_lock = Free

\* with stats_lock: dict(stats) (lines 300-301)
StatsCopy ==
    /\ statsPc = "idle"
    /\ StatsLockFree
    /\ stats_lock' = "stats"
    /\ snap' = stats
    /\ statsPc' = "ret"
    /\ UNCHANGED <<detection_active, count, alarm_on, stats, email_config,
                   camera, email_lock, loopVars, threadVars, startPc, stopPc,
                   emailPc, getPc, ghostVars>>

\* return jsonify(...); the lock is released (line 301)
StatsReturn ==
    /\ statsPc = "ret"
    /\ stats_lock' = Free
    /\ Released(stats)
    /\ statsPc' = "idle"
    /\ snap' = ZeroStats
    /\ UNCHANGED <<detection_active, count, alarm_on, stats, email_config,
                   camera, email_lock, loopVars, threadVars, startPc, stopPc,
                   emailPc, getPc, session, frames, crossings, frameRun,
                   closedFrames, posts, delivered, preconfigured, stopped, pending>>

GetStats ==
    \/ StatsCopy
    \/ StatsReturn

\* ---- set_sos_email ------------------------------------------------------
\* with email_lock: email_config['recipient_email'] = email (lines 314-315)
SetEmail(e) ==
    /\ emailPc = "idle"
    /\ email_lock = Free
    /\ email_lock' = "set"
    /\ email_config' = [email_config EXCEPT !.recipient_email = e]
    /\ emailPc' = "rel"
    /\ preconfigured' = FALSE
    /\ UNCHANGED <<detection_active, count, alarm_on, stats, camera,
                   stats_lock, loopVars, threadVars, startPc, stopPc, statsPc,
                   snap, getPc, session, frames, crossings, frameRun,
                   closedFrames, posts, delivered, stable, stopped, pending>>

\* the lock is released and the handler returns (lines 315-319)
SetEmailReturn ==
    /\ emailPc = "rel"
    /\ email_lock = "set"
    /\ email_lock' = Free
    /\ emailPc' = "idle"
    /\ UNCHANGED <<detection_active, count, alarm_on, stats, email_config,
                   camera, stats_lock, loopVars, threadVars, startPc, stopPc,
                   statsPc, snap, getPc, ghostVars>>

SetSosEmail ==
    \/ \E e \in Emails : SetEmail(e)
    \/ SetEmailReturn

\* ---- get_sos_email ------------------------------------------------------
\* with email_lock: the recipient is read (lines 324-325)
GetEmail ==
    /\ getPc = "idle"
    /\ email_lock = Free
    /\ email_lock' = "get"
    /\ getPc' = "rel"
    /\ UNCHANGED <<detection_active, count, alarm_on, stats, email_config,
                   camera, stats_lock, loopVars, threadVars, startPc, stopPc,
                   statsPc, snap, emailPc, ghostVars>>

\* return jsonify(...); the lock is released (line 325)
GetEmailReturn ==
    /\ getPc = "rel"
    /\ email_lock = "get"
    /\ email_lock' = Free
    /\ getPc' = "idle"
    /\ UNCHANGED <<detection_active, count, alarm_on, stats, email_config,
                   camera, stats_lock, loopVars, threadVars, startPc, stopPc,
                   statsPc, snap, emailPc, ghostVars>>

GetSosEmail ==
    \/ GetEmail
    \/ GetEmailReturn

\* ---- the program --------------------------------------------------------
Next ==
    \/ FrameLoop(AnyFaces, MaxControlFrames)
    \/ StartAlarm
    \/ SendSosEmail
    \/ StartDetection
    \/ StopDetection
    \/ GetStats
    \/ SetSosEmail
    \/ GetSosEmail

Spec == Init /\ [][Next]_vars

\* ---- one session --------------------------------------------------------
\* The stats store after k closed streaks of exactly Threshold frames, each
\* followed by one open frame and each counted once.
StreakStats(k) == [eyes_closed_count |-> Threshold * k,
                   total_frames |-> (Threshold + 1) * k,
                   drowsiness_events |-> k,
                   alarm_triggered |-> FALSE]

\* A session in progress: start_detection has returned, /video_feed has
\* opened the capture, k < SosEvents clean streaks have gone by, the frame
\* loop is at the head of its while loop and no background thread is left.
\* The recipient was set, or not, before the session began.
SessionInit ==
    /\ detection_active = TRUE
    /\ count = 0
    /\ alarm_on = FALSE
    /\ \E k \in 0..(SosEvents - 1) :
          /\ stats = StreakStats(k)
          /\ stable = stats
          /\ crossings = k
          /\ closedFrames = Threshold * k
    /\ \E e \in Emails :
          /\ email_config = [recipient_email |-> e, email_sent |-> FALSE]
          /\ preconfigured = (e # "")
    /\ camera = "open"
    /\ stats_lock = Free
    /\ email_lock = Free
    /\ fpc = "while"
    /\ status1 = 0
    /\ status2 = 0
    /\ facesLeft = 0
    /\ firstFace = FALSE
    /\ tmp = 0
    /\ alarms = EmptyBag
    /\ soss = EmptyBag
    /\ startPc = "idle"
    /\ stopPc = "idle"
    /\ statsPc = "idle"
    /\ snap = ZeroStats
    /\ emailPc = "idle"
    /\ getPc = "idle"
    /\ session = 1
    /\ frames = 0
    /\ frameRun = 0
    /\ posts = 0
    /\ delivered = 0
    /\ stopped = FALSE
    /\ pending = "none"

\* one session in which a frame shows at most one face
SessionNext ==
    \/ FrameLoop(SingleFace, MaxFrames)
    \/ StartAlarm
    \/ SendSosEmail
    \/ SetSosEmail

SessionSpec == SessionInit /\ [][SessionNext]_vars

\* one session in which a frame shows any number of faces
CrowdNext ==
    \/ FrameLoop(AnyFaces, MaxCrowdFrames)
    \/ StartAlarm
    \/ SendSosEmail

CrowdSpec == SessionInit /\ [][CrowdNext]_vars

\* a session in progress that is stopped and started again
RestartNext ==
    \/ FrameLoop(SingleFace, MaxControlFrames)
    \/ StartAlarm
    \/ SendSosEmail
    \/ StartDetection
    \/ StopDetection

RestartSpec == SessionInit /\ [][RestartNext]_vars

\* a session in progress whose stats are polled while it runs and while it
\* is started again
PollNext ==
    \/ FrameLoop(SingleFace, MaxControlFrames)
    \/ StartAlarm
    \/ SendSosEmail
    \/ StartDetection
    \/ GetStats

PollSpec == SessionInit /\ [][PollNext]_vars

\* ---- one session, in the middle of a streak -------------------------------
\* The stats store after k clean streaks and Threshold - 1 further closed
\* frames.
MidStreakStats(k) == [eyes_closed_count |-> Threshold * k + Threshold - 1,
                      total_frames |-> (Threshold + 1) * k + Threshold - 1,
                      drowsiness_events |-> k,
                      alarm_triggered |-> FALSE]

\* A session in progress, one closed frame short of a rising edge: k clean
\* streaks have gone by, the last of them the second or the third of the
\* session, and Threshold - 1 closed frames have followed.  When the third
\* streak has gone by with a recipient set, its POST was issued and failed,
\* so email_sent is still false.  No background thread is left.
MidStreakInit ==
    /\ detection_active = TRUE
    /\ count = Threshold - 1
    /\ alarm_on = FALSE
    /\ \E k \in (SosEvents - 1)..SosEvents, e \in Emails :
          /\ stats = MidStreakStats(k)
          /\ stable = stats
          /\ crossings = k
          /\ closedFrames = Threshold * k + Threshold - 1
          /\ email_config = [recipient_email |-> e, email_sent |-> FALSE]
          /\ preconfigured = (e # "")
          /\ posts = IF k = SosEvents /\ e # "" THEN 1 ELSE 0
    /\ camera = "open"
    /\ stats_lock = Free
    /\ email_lock = Free
    /\ fpc = "while"
    /\ status1 = Closed
    /\ status2 = Closed
    /\ facesLeft = 0
    /\ firstFace = FALSE
    /\ tmp = Threshold - 2
    /\ alarms = EmptyBag
    /\ soss = EmptyBag
    /\ startPc = "idle"
    /\ stopPc = "idle"
    /\ statsPc = "idle"
    /\ snap = ZeroStats
    /\ emailPc = "idle"
    /\ getPc = "idle"
    /\ session = 1
    /\ frames = 0
    /\ frameRun = Threshold - 1
    /\ delivered = 0
    /\ stopped = FALSE
    /\ pending = "none"

\* the streak goes on, or ends, with at most one face in a frame
StreakNext ==
    \/ FrameLoop(SingleFace, MaxStreakFrames)
    \/ StartAlarm
    \/ SendSosEmail

StreakSpec == MidStreakInit /\ [][StreakNext]_vars

\* the same with every request handler that takes a lock running
LockNext ==
    \/ FrameLoop(SingleFace, MaxLockFrames)
    \/ StartAlarm
    \/ SendSosEmail
    \/ StartDetection
    \/ GetStats
    \/ SetSosEmail
    \/ GetSosEmail

LockSpec == MidStreakInit /\ [][LockNext]_vars

\* ---- properties ---------------------------------------------------------
\* no start_alarm thread is alive and the frame loop is between two frames
Settled == alarms = EmptyBag /\ fpc \in {"yield", "while", "read"}

\* C1: within one session drowsiness_events is incremented exactly once for
\* each streak whose counter reaches Threshold: it never exceeds the number
\* of crossings, and once the spawned start_alarm threads have finished it
\* equals that number.
C1_OncePerCrossing ==
    /\ stats.drowsiness_events <= crossings
    /\ Settled => stats.drowsiness_events = crossings

\* C2: within one session at most one POST is delivered successfully, and
\* no POST is issued once one has succeeded.
C2_AtMostOneDelivery ==
    [][/\ delivered' <= 1
       /\ delivered >= 1 => posts' = posts]_vars

\* the send_sos_email thread t passes its gate
PassesGate(t) == SosGate(t) /\ email_lock' = "sos"

\* C3: a dispatch task passes its gate, and so goes on to issue its POST,
\* only when a recipient is configured, the session's drowsiness_events
\* is at SosEvents or more and email_sent is false (checked of the gates
\* that are passed while no start_detection call is under way).
C3_GateNeedsEvents ==
    [][\A t \in BagToSet(soss) :
          (startPc = "idle" /\ PassesGate(t)) =>
             /\ email_config.recipient_email # ""
             /\ stats.drowsiness_events >= SosEvents
             /\ ~email_config.email_sent]_vars

\* POSTs that wait for their answer
InFlight == BagCardinality([t \in {u \in BagToSet(soss) : u.pc = "wait"} |-> soss[t]])

\* the recipient was configured before the session and is still the same,
\* and the relay has answered every POST so far with success
C4_Given == preconfigured /\ posts = delivered + InFlight

\* C4: with a recipient configured before the session and a relay that
\* answers with success, no POST is issued before the third streak reaches
\* Threshold, at most one is issued, and once the third streak has been
\* handled drowsiness_events is 3, one POST is recorded and email_sent is
\* true.
C4_ThirdStreakSendsOnce ==
    C4_Given =>
        /\ posts > 0 => crossings >= SosEvents
        /\ posts <= 1
        /\ (crossings = SosEvents /\ Settled /\ soss = EmptyBag) =>
              /\ stats.drowsiness_events = SosEvents
              /\ posts = 1
              /\ email_config.email_sent

\* C5: start_detection sets count to 0 and alarm_on to false, leaves the
\* stats store at (0, 0, 0, false) when its with-block ends, sets
\* email_sent to false, and never changes recipient_email.
C5_StartResets ==
    [][/\ (startPc = "count" /\ startPc' = "alarm") => count' = 0
       /\ (startPc = "alarm" /\ startPc' = "stats") => alarm_on' = FALSE
       /\ (startPc = "r3" /\ startPc' = "email") => stats' = ZeroStats
       /\ (startPc = "email" /\ startPc' = "email_rel") =>
             email_config'.email_sent = FALSE
       /\ startPc' # startPc =>
             email_config'.recipient_email = email_config.recipient_email]_vars

\* start_detection has reset count, alarm_on and the stats of a session
\* in which frames were processed and the SOS was delivered, and is about
\* to reset email_sent
C5_Witness ==
    /\ startPc = "email"
    /\ session = 2
    /\ frames > 0
    /\ stats = ZeroStats
    /\ email_config = [recipient_email |-> "a@x", email_sent |-> TRUE]

\* a step of a background thread that was spawned in an earlier session
OldTaskStep ==
    \/ \E t \in BagToSet(alarms) : t.sess < session /\ AlarmStep(t)
    \/ \E t \in BagToSet(soss) : t.sess < session /\ SosStep(t)

\* C6: once start_detection has returned in a session that follows a
\* stop, no thread spawned in an earlier session changes
\* drowsiness_events, alarm_triggered, alarm_on or email_sent.
C6_SessionsIsolated ==
    [][(stopped /\ startPc = "idle" /\ OldTaskStep) =>
          /\ stats'.drowsiness_events = stats.drowsiness_events
          /\ stats'.alarm_triggered = stats.alarm_triggered
          /\ alarm_on' = alarm_on
          /\ email_config'.email_sent = email_config.email_sent]_vars

\* C7: after each frame count is the length of the trailing run of frames
\* classified both-eyes-closed.
C7_CountIsTrailingRun == fpc = "yield" => count = frameRun

\* C8: between frames the alarm flag is set only while count is at
\* Threshold or more.
C8_AlarmOnlyAtThreshold ==
    fpc = "yield" => ((alarm_on \/ stats.alarm_triggered) => count >= Threshold)

\* C9: after each frame eyes_closed_count is the number of frames of the
\* session classified both-eyes-closed.
C9_ClosedCountIsFrames == fpc = "yield" => stats.eyes_closed_count = closedFrames

\* C10: the snapshot get_stats returns is the stats store as it was at an
\* instant when no update of it was under way.
C10_SnapshotConsistent == statsPc = "ret" => snap = stable

\* a snapshot taken while start_detection waits to reset the store and a
\* start_alarm thread waits to count its rising edge
C10_Witness ==
    /\ statsPc = "ret"
    /\ startPc = "stats"
    /\ \E t \in BagToSet(alarms) : t.pc = "lock"
    /\ snap.drowsiness_events > 0

\* a delivery attempt fails: the call raises, or the status is not 2xx
Failed(r) == r = Timeout \/ r \notin 200..299

\* C11: when a delivery attempt fails, the dispatch task ends there, and
\* the failure leaves email_sent as it was (false stays false), and
\* changes neither the recipient, nor the frame loop, count, alarm_on or
\* the four stats fields.
C11_FailureChangesNothing ==
    [][\A t \in BagToSet(soss), r \in Responses :
          (Failed(r) /\ SosResponse(t, r)) =>
             /\ soss' = Take(soss, t)
             /\ ~email_config.email_sent => ~email_config'.email_sent
             /\ UNCHANGED <<email_config, count, alarm_on, stats,
                            detection_active, loopVars, alarms>>]_vars

\* two POSTs of the run have failed, their tasks are gone and email_sent
\* is still false
C11_Witness ==
    /\ posts >= 2
    /\ delivered = 0
    /\ soss = EmptyBag
    /\ email_config = [recipient_email |-> "a@x", email_sent |-> FALSE]

\* C12: an answer of the relay makes the task go on to set email_sent
\* exactly when its status is in 200..299.
C12_SuccessIs2xx ==
    [][\A t \in BagToSet(soss), r \in Responses :
          SosResponse(t, r) =>
             IF r \in 200..299
               THEN soss' = Move(soss, t, [t EXCEPT !.pc = "mark"])
               ELSE soss' = Take(soss, t)]_vars

\* rising edges of the session at which the SOS is due
DueEdges == IF crossings >= SosEvents THEN crossings - (SosEvents - 1) ELSE 0

\* with a recipient configured, once every rising edge has been handled,
\* each edge at which the SOS was due has issued its POST unless the SOS
\* had been delivered by then
EdgeRetries ==
    (Settled /\ soss = EmptyBag /\ email_config.recipient_email # "") =>
       (email_config.email_sent \/ posts >= DueEdges)

\* C13: after a failed attempt the next rising edge issues a new POST,
\* and no POST is issued at any other moment: there are never more POSTs
\* than rising edges at which the SOS was due.
C13_RetryOnlyOnRisingEdge ==
    /\ EdgeRetries
    /\ posts <= DueEdges

\* C14: only the first face of a frame is processed: the body of the loop
\* over the faces, which makes the frame's step of count, adds to
\* eyes_closed_count and evaluates the alarm, is entered for the first face
\* of a frame and for no other.
C14_FirstFaceOnly ==
    [][(fpc = "faces" /\ fpc' \in {"inc", "clear_alarm"}) => firstFace]_vars

\* the frame loop takes a step within a frame in which no face was found
NoFaceStep ==
    /\ fpc \in {"total", "total_rel", "faces"}
    /\ facesLeft = 0
    /\ firstFace
    /\ fpc' # fpc

\* C15: processing a frame without a face adds one to total_frames, goes
\* straight to the yield, and changes neither count, alarm_on, the other
\* stats fields, email_sent or the recipient, and spawns no thread.
C15_NoFaceOnlyCounts ==
    [][NoFaceStep =>
          /\ stats' = IF fpc = "total"
                        THEN [stats EXCEPT !.total_frames = @ + 1]
                        ELSE stats
          /\ fpc = "faces" => fpc' = "yield"
          /\ UNCHANGED <<count, alarm_on, email_config, alarms, soss,
                         status1, status2>>]_vars

\* a frame without a face has been processed in the middle of a streak
C15_Witness ==
    /\ fpc = "yield"
    /\ firstFace
    /\ frames = 1
    /\ count = Threshold - 1
    /\ stats.total_frames = stats.eyes_closed_count + stats.drowsiness_events + 1

\* C16: a frame with a face in which an eye is not observed does not
\* reset count to 0 and does not clear a set alarm flag.
C16_UnobservedEyeKeepsState ==
    [][\A l \in Obs, r \in Obs :
          ((l = NoEye \/ r = NoEye) /\ Face(l, r)) =>
             /\ count' = count
             /\ alarm_on => fpc' # "clear_alarm"]_vars

\* C17 (safety part): once stop_detection has cleared the flag, the frame
\* loop that was running reads at most one further frame from the capture.
C17_OneFurtherFrame ==
    [][(fpc = "read" /\ fpc' = "total") => pending # "spent"]_vars

\* the threads of the bag b that are at one of the positions pcs
At(b, pcs) ==
    LET S == {u \in BagToSet(b) : u.pc \in pcs}
    IN  IF S = {} THEN 0 ELSE BagCardinality([u \in S |-> b[u]])

\* C18 as stated: stats_lock is held by no thread at all while a POST is
\* in flight.
C18_LockFreeDuringPost == InFlight > 0 => stats_lock = Free

\* C18 as amended: a send_sos_email thread that holds stats_lock or
\* email_lock is inside one of its three with-blocks, none of which
\* contains the POST, so the thread whose POST is in flight holds no lock;
\* and a POST is issued by a send_sos_email thread in a step that leaves
\* the frame loop where it is.
C18_SenderHoldsNoLock ==
    [][/\ stats_lock' = "sos" => At(soss', {"build_rel"}) = 1
       /\ email_lock' = "sos" => At(soss', {"gate_rel", "mark_rel"}) = 1
       /\ posts' > posts =>
             /\ At(soss', {"wait"}) = At(soss, {"wait"}) + 1
             /\ At(soss', {"post"}) = At(soss, {"post"}) - 1
             /\ UNCHANGED <<loopVars, stats_lock, email_lock>>]_vars

\* the frame loop holds stats_lock for a frame while a POST is in flight
C18_Witness ==
    /\ InFlight > 0
    /\ stats_lock = "frame"
    /\ fpc = "total_rel"

\* the threads that are inside a with stats_lock block
InStatsBlock ==
    [frame |-> IF fpc \in {"total_rel", "closed_rel", "open_rel"} THEN 1 ELSE 0,
     alarm |-> At(alarms, {"inc"}),
     sos   |-> At(soss, {"build_rel"}),
     start |-> IF startPc \in {"r1", "r2", "r3"} THEN 1 ELSE 0,
     stats |-> IF statsPc = "ret" THEN 1 ELSE 0,
     set   |-> 0,
     get   |-> 0]

\* the threads that are inside a with email_lock block
InEmailBlock ==
    [frame |-> 0,
     alarm |-> At(alarms, {"decide"}),
     sos   |-> At(soss, {"gate_rel", "mark_rel"}),
     start |-> IF startPc = "email_rel" THEN 1 ELSE 0,
     stats |-> 0,
     set   |-> IF emailPc = "rel" THEN 1 ELSE 0,
     get   |-> IF getPc = "rel" THEN 1 ELSE 0]

Kinds == {"frame", "alarm", "sos", "start", "stats", "set", "get"}

\* the lock is held by exactly the one thread that is inside a with-block
\* of that lock
HeldByBlock(lock, inBlock) ==
    \A k \in Kinds : inBlock[k] = IF lock = k THEN 1 ELSE 0

\* C19: each lock is held exactly by the thread that is inside a
\* with-block of that lock; the blocks of the two locks do not overlap in
\* any thread, so no thread holds both locks, and a thread that waits for
\* one lock holds none.
C19_OneLockAtATime ==
    /\ HeldByBlock(stats_lock, InStatsBlock)
    /\ HeldByBlock(email_lock, InEmailBlock)

\* a send_sos_email thread holds email_lock to set email_sent while
\* start_detection holds stats_lock and waits for neither
C19_Witness ==
    /\ email_lock = "sos"
    /\ At(soss, {"mark_rel"}) = 1
    /\ stats_lock = "start"

\* C20: whenever no update of the store is under way, eyes_closed_count
\* is at most total_frames and Threshold * drowsiness_events is at most
\* eyes_closed_count.
C20_CountersConsistent ==
    stats_lock = Free =>
       /\ stats.eyes_closed_count <= stats.total_frames
       /\ Threshold * stats.drowsiness_events <= stats.eyes_closed_count

====
